---- MODULE Spec2Model ----
(***************************************************************************)
(* A/B price-testing service: the relational store (tests, variants,       *)
(* assignments, events) and the HTTP handlers that read and write it.      *)
(* Every await on the store is one atomic step of a handler; handlers of   *)
(* different requests interleave between their steps.                      *)
(***************************************************************************)
EXTENDS Integers, Sequences, FiniteSets, Bags, TLC

\* ------------------------------------------------------------------ bounds
TestIds == {"t1"}
\* tests of the same store that no request of a run creates, updates or deletes
OtherTests == {"t2"}
Visitors == {"v1", "v2"}
NumBucket == 2
NumEvent == 2
RandomSteps == 4
SelSteps == 20

BucketIds == 1..NumBucket
\* tracking requests and webhook deliveries, NumEvent of them together
TrackIds == 1..NumEvent
HookIds == 1..NumEvent
OrderIds == {"o1"}

\* ------------------------------------------------------- program constants
Statuses == {"draft", "active", "paused", "completed"}
UNIQUE_VIOLATION == "23505"
OTHER_DB_ERROR == "XX000"
NoError == "ok"

VARIABLES tests, variants, assignments, events, create, bucket, sel, stats, track, hook, secretSet

vars == <<tests, variants, assignments, events, create, bucket, sel, stats, track, hook, secretSet>>

\* the requests that are not part of the administration of tests
clientVars == <<bucket, sel, stats, track, hook, secretSet>>
\* everything but the bucketing requests and the assignments they write
nonBucketVars == <<create, sel, stats, track, hook, secretSet>>

\* ---------------------------------------------------------------- the store
\* tests[t] is the status column of the row, "absent" before the row is
\* inserted and "deleted" after it was deleted (ids are never reused).
Exists(t) == tests[t] \in Statuses

\* variants of a test in the order the store returns them; the id of a
\* variant is <<test, position>>.
VariantIdsOf(t) == {<<t, i>> : i \in 1..Len(variants[t])}

AllVariantIds == UNION {VariantIdsOf(t) : t \in DOMAIN variants}

\* assignments UNIQUE(test_id, visitor_id)
AssignmentLookupMiss(asg, t, v) == {}
AssignmentLookup(asg, t, v) == {a \in asg : a.test_id = t /\ a.visitor_id = v}

AssignmentInsertUnchecked(asg, row, fault) ==
  IF fault \/ ~Exists(row.test_id) \/ row.variant_id \notin VariantIdsOf(row.test_id)
    THEN [error |-> OTHER_DB_ERROR, rows |-> asg]
  ELSE [error |-> NoError, rows |-> asg \cup {row}]
AssignmentInsertOverwrite(asg, row, fault) ==
  IF fault \/ ~Exists(row.test_id) \/ row.variant_id \notin VariantIdsOf(row.test_id)
    THEN [error |-> OTHER_DB_ERROR, rows |-> asg]
  ELSE [error |-> NoError,
        rows |-> {a \in asg : ~(a.test_id = row.test_id /\ a.visitor_id = row.visitor_id)} \cup {row}]
\* insert of one assignment row: the unique constraint answers 23505, a
\* missing test or variant row (foreign keys) or a store fault any other error
AssignmentInsert(asg, row, fault) ==
  IF \E a \in asg : a.test_id = row.test_id /\ a.visitor_id = row.visitor_id
    THEN [error |-> UNIQUE_VIOLATION, rows |-> asg]
  ELSE IF fault \/ ~Exists(row.test_id) \/ row.variant_id \notin VariantIdsOf(row.test_id)
    THEN [error |-> OTHER_DB_ERROR, rows |-> asg]
  ELSE [error |-> NoError, rows |-> asg \cup {row}]

\* ------------------------------------------------------ weighted selection
RECURSIVE SumWeights(_)
SumWeights(vs) == IF vs = <<>> THEN 0 ELSE Head(vs).weight + SumWeights(Tail(vs))

\* Math.random() is num/den in [0, 1); the draw is Math.random() * totalWeight
Randoms(steps) == {[num |-> k, den |-> steps] : k \in 0..(steps - 1)}

RECURSIVE SelectWalkStrict(_, _, _, _)
SelectWalkStrict(vs, i, cumulative, random) ==
  IF i > Len(vs) THEN 1
  ELSE IF random.num * SumWeights(vs) < random.den * (cumulative + vs[i].weight) THEN i
  ELSE SelectWalkStrict(vs, i + 1, cumulative + vs[i].weight, random)

\* the for loop: position of the selected variant, variants[0] when no
\* cumulative weight reaches the draw
RECURSIVE SelectWalk(_, _, _, _)
SelectWalk(vs, i, cumulative, random) ==
  IF i > Len(vs) THEN 1
  ELSE IF random.num * SumWeights(vs) <= random.den * (cumulative + vs[i].weight) THEN i
  ELSE SelectWalk(vs, i + 1, cumulative + vs[i].weight, random)

WeightedSelect(vs, random) == SelectWalk(vs, 1, 0, random)

\* ------------------------------------------------------------ create a test
NoCode == "none"
Variant(w, c) == [weight |-> w, discount_code |-> c]

\* request bodies of POST /api/tests: the variants array
CreateInputs ==
  { <<Variant(50, NoCode), Variant(50, "AB1")>>,
    <<Variant(100, NoCode), Variant(0, "AB1")>>,
    <<Variant(0, NoCode), Variant(100, "AB1")>>,
    <<Variant(60, NoCode), Variant(30, "AB1")>>,
    <<Variant(100, NoCode)>> }

IdleCreate == [pc |-> "idle", id |-> "none", input |-> <<>>, code |-> 0, error |-> NoError]

\* createTestSchema: variants.min(2)
CreateSchemaValid(input) == Len(input) >= 2

WeightsUnchecked(input) == TRUE
\* "Validate variant weights sum to 100"
WeightsSumTo100(input) == SumWeights(input) = 100

\* cascade of DELETE FROM tests WHERE id = t
CascadeDelete(t) ==
  /\ tests' = [tests EXCEPT ![t] = IF Exists(t) THEN "deleted" ELSE @]
  /\ variants' = [variants EXCEPT ![t] = <<>>]
  /\ assignments' = {a \in assignments : a.test_id # t}
  /\ events' = [e \in {x \in DOMAIN events : x.test_id # t /\ x.variant_id[1] # t} |-> events[e]]

\* POST /api/tests up to and including the insert of the test row
CreateInsertTest(input, fault) ==
  /\ create.pc \in {"idle", "done"}
  /\ \E t \in TestIds : tests[t] = "absent"
  /\ LET t == CHOOSE x \in TestIds : tests[x] = "absent" IN
     IF ~CreateSchemaValid(input) THEN
       /\ create' = [pc |-> "done", id |-> "none", input |-> input, code |-> 400, error |-> "Invalid request"]
       /\ UNCHANGED tests
     ELSE IF ~WeightsSumTo100(input) THEN
       /\ create' = [pc |-> "done", id |-> "none", input |-> input, code |-> 400, error |-> "Variant weights must sum to 100"]
       /\ UNCHANGED tests
     ELSE IF fault THEN
       /\ create' = [pc |-> "done", id |-> "none", input |-> input, code |-> 500, error |-> "Failed to create test"]
       /\ UNCHANGED tests
     ELSE
       /\ tests' = [tests EXCEPT ![t] = "draft"]
       /\ create' = [pc |-> "variants", id |-> t, input |-> input, code |-> 0, error |-> NoError]
  /\ UNCHANGED <<variants, assignments, events, clientVars>>

\* the insert of the variant rows; it fails on a store fault or when the test
\* row is gone (foreign key)
CreateInsertVariants(fault) ==
  /\ create.pc = "variants"
  /\ IF fault \/ ~Exists(create.id) THEN
       /\ create' = [create EXCEPT !.pc = "rollback"]
       /\ UNCHANGED variants
     ELSE
       /\ variants' = [variants EXCEPT ![create.id] = create.input]
       /\ create' = [create EXCEPT !.pc = "done", !.code = 201]
  /\ UNCHANGED <<tests, assignments, events, clientVars>>

\* "Rollback: delete the test"; the result of the delete is not looked at
CreateRollback(fault) ==
  /\ create.pc = "rollback"
  /\ IF fault THEN UNCHANGED <<tests, variants, assignments, events>>
              ELSE CascadeDelete(create.id)
  /\ create' = [create EXCEPT !.pc = "done", !.code = 500, !.error = "Failed to create variants"]
  /\ UNCHANGED clientVars

\* PATCH /api/tests/{id} with a status: one UPDATE of the row, any status
PatchStatus(t, s) ==
  /\ Exists(t)
  /\ tests' = [tests EXCEPT ![t] = s]
  /\ UNCHANGED <<variants, assignments, events, create, clientVars>>

\* DELETE /api/tests/{id}
DeleteTest(t) ==
  /\ Exists(t)
  /\ CascadeDelete(t)
  /\ UNCHANGED <<create, clientVars>>

\* ------------------------------------------------- GET /api/bucket/{testId}
NoVariant == <<"none", 0>>
NoResponse == [code |-> 0, error |-> NoError, variant_id |-> NoVariant, is_new_assignment |-> FALSE]
Ok(vid, isNew) == [code |-> 200, error |-> NoError, variant_id |-> vid, is_new_assignment |-> isNew]
Err(c, e) == [code |-> c, error |-> e, variant_id |-> NoVariant, is_new_assignment |-> FALSE]

IdleBucket ==
  [pc |-> "idle", testId |-> "none", visitorId |-> "none", variantsSeen |-> <<>>,
   selected |-> 0, resp |-> NoResponse, lookups |-> 0, inserts |-> 0, rereads |-> 0,
   statusSeen |-> "none", rowSeen |-> NoVariant, insertError |-> NoError]

AfterFetchTestLikeTrack(req, status, vs) ==
  IF status \notin Statuses THEN [req EXCEPT !.pc = "done", !.resp = Err(404, "Test not found")]
  ELSE IF status # "active" /\ status # "completed"
    THEN [req EXCEPT !.pc = "done", !.resp = Err(400, "Test is not active")]
  ELSE [req EXCEPT !.pc = "lookup", !.variantsSeen = vs]
\* "if (testError || !test)" and "if (test.status !== 'active')"
AfterFetchTest(req, status, vs) ==
  IF status \notin Statuses THEN [req EXCEPT !.pc = "done", !.resp = Err(404, "Test not found")]
  ELSE IF status # "active" THEN [req EXCEPT !.pc = "done", !.resp = Err(400, "Test is not active")]
  ELSE [req EXCEPT !.pc = "lookup", !.variantsSeen = vs]

\* the select of the test with its variants, and the two status checks
BucketFetchTest(r, t, v) ==
  /\ bucket[r].pc = "idle"
  /\ \A q \in BucketIds : q < r => bucket[q].pc # "idle"
  /\ LET req == [bucket[r] EXCEPT !.testId = t, !.visitorId = v, !.statusSeen = tests[t]] IN
     bucket' = [bucket EXCEPT ![r] = AfterFetchTest(req, tests[t], variants[t])]
  /\ UNCHANGED <<tests, variants, assignments, events, nonBucketVars>>

AfterLookupMissSkipCheck(req, random) ==
  [req EXCEPT !.pc = "insert",
              !.selected = IF req.variantsSeen = <<>> THEN 1 ELSE WeightedSelect(req.variantsSeen, random)]
\* no existing assignment: the zero-variants check, then the weighted draw
AfterLookupMiss(req, random) ==
  IF Len(req.variantsSeen) = 0
    THEN [req EXCEPT !.pc = "done", !.resp = Err(400, "No variants configured for this test")]
    ELSE [req EXCEPT !.pc = "insert", !.selected = WeightedSelect(req.variantsSeen, random)]

\* the select of the existing assignment and what follows without a store call
BucketLookup(r, random) ==
  /\ bucket[r].pc = "lookup"
  /\ LET b == bucket[r]
         found == AssignmentLookup(assignments, b.testId, b.visitorId)
         actual == {a \in assignments : a.test_id = b.testId /\ a.visitor_id = b.visitorId}
         req == [b EXCEPT !.lookups = @ + 1,
                          !.rowSeen = IF actual = {} THEN NoVariant ELSE (CHOOSE a \in actual : TRUE).variant_id] IN
     bucket' = [bucket EXCEPT ![r] =
       IF found # {}
         THEN [req EXCEPT !.pc = "done", !.resp = Ok((CHOOSE a \in found : TRUE).variant_id, FALSE)]
         ELSE AfterLookupMiss(req, random)]
  /\ UNCHANGED <<tests, variants, assignments, events, nonBucketVars>>

AfterInsertRetry(req, error) ==
  IF error = NoError
    THEN [req EXCEPT !.pc = "done", !.resp = Ok(<<req.testId, req.selected>>, TRUE)]
  ELSE IF error = UNIQUE_VIOLATION THEN [req EXCEPT !.pc = IF req.inserts < 2 THEN "insert" ELSE "reread"]
  ELSE [req EXCEPT !.pc = "done", !.resp = Err(500, "Failed to create assignment")]
AfterInsertKeepLocal(req, error) ==
  IF error = NoError
    THEN [req EXCEPT !.pc = "done", !.resp = Ok(<<req.testId, req.selected>>, TRUE)]
  ELSE IF error = UNIQUE_VIOLATION
    THEN [req EXCEPT !.pc = "done", !.resp = Ok(<<req.testId, req.selected>>, FALSE)]
  ELSE [req EXCEPT !.pc = "done", !.resp = Err(500, "Failed to create assignment")]
AfterInsertAlwaysNew(req, error) ==
  IF error = NoError \/ error = UNIQUE_VIOLATION
    THEN [req EXCEPT !.pc = "done", !.resp = Ok(<<req.testId, req.selected>>, TRUE)]
    ELSE [req EXCEPT !.pc = "done", !.resp = Err(500, "Failed to create assignment")]
\* the branches on assignmentError
AfterInsert(req, error) ==
  IF error = NoError
    THEN [req EXCEPT !.pc = "done", !.resp = Ok(<<req.testId, req.selected>>, TRUE)]
  ELSE IF error = UNIQUE_VIOLATION THEN [req EXCEPT !.pc = "reread"]
  ELSE [req EXCEPT !.pc = "done", !.resp = Err(500, "Failed to create assignment")]

\* the insert of the assignment row
BucketInsert(r, fault) ==
  /\ bucket[r].pc = "insert"
  /\ LET b == bucket[r]
         row == [test_id |-> b.testId, visitor_id |-> b.visitorId, variant_id |-> <<b.testId, b.selected>>]
         res == AssignmentInsert(assignments, row, fault) IN
     /\ assignments' = res.rows
     /\ bucket' = [bucket EXCEPT ![r] =
          AfterInsert([b EXCEPT !.inserts = @ + 1, !.insertError = res.error], res.error)]
  /\ UNCHANGED <<tests, variants, events, nonBucketVars>>

\* the single re-read after a 23505
BucketReread(r) ==
  /\ bucket[r].pc = "reread"
  /\ LET b == bucket[r]
         found == AssignmentLookup(assignments, b.testId, b.visitorId)
         req == [b EXCEPT !.rereads = @ + 1] IN
     bucket' = [bucket EXCEPT ![r] =
       IF found # {}
         THEN [req EXCEPT !.pc = "done", !.resp = Ok((CHOOSE a \in found : TRUE).variant_id, FALSE)]
         ELSE [req EXCEPT !.pc = "done", !.resp = Err(500, "Failed to create assignment")]]
  /\ UNCHANGED <<tests, variants, assignments, events, nonBucketVars>>

\* ------------------------------------------------------------ event store
NoOrder == "null"
Event(t, vid, vis, ty, o) ==
  [test_id |-> t, variant_id |-> vid, visitor_id |-> vis, event_type |-> ty, order_id |-> o]

PurchasesOf(B, o) ==
  [e \in {x \in DOMAIN B : x.event_type = "purchase" /\ x.order_id = o} |-> B[e]]

EventForeignKeysIgnored(e) == TRUE
\* foreign keys of events: test_id -> tests(id), variant_id -> variants(id)
EventForeignKeysOk(e) == Exists(e.test_id) /\ e.variant_id \in AllVariantIds

OrderConflictNever(B, e) == FALSE
\* idx_events_order_unique: UNIQUE (order_id, event_type)
\*   WHERE order_id IS NOT NULL AND event_type = 'purchase'
OrderConflict(B, e) ==
  /\ e.event_type = "purchase"
  /\ e.order_id # NoOrder
  /\ BagCardinality(PurchasesOf(B, e.order_id)) > 0

\* INSERT of the rows of one statement, all or nothing
RECURSIVE EventsInsert(_, _, _)
EventsInsert(B, rows, fault) ==
  IF rows = <<>> THEN [error |-> IF fault THEN OTHER_DB_ERROR ELSE NoError, rows |-> B]
  ELSE IF OrderConflict(B, Head(rows)) THEN [error |-> UNIQUE_VIOLATION, rows |-> B]
  ELSE IF ~EventForeignKeysOk(Head(rows)) THEN [error |-> OTHER_DB_ERROR, rows |-> B]
  ELSE EventsInsert(B (+) SetToBag({Head(rows)}), Tail(rows), fault)

\* upsert(row, {onConflict: "order_id,event_type", ignoreDuplicates: true}):
\* INSERT ... ON CONFLICT DO NOTHING
EventsUpsertIgnore(B, row, fault) ==
  IF fault THEN [error |-> OTHER_DB_ERROR, rows |-> B]
  ELSE IF OrderConflict(B, row) THEN [error |-> NoError, rows |-> B]
  ELSE IF ~EventForeignKeysOk(row) THEN [error |-> OTHER_DB_ERROR, rows |-> B]
  ELSE [error |-> NoError, rows |-> B (+) SetToBag({row})]

\* the conflict as the claims see it, whatever the index does
HasPurchase(B, e) ==
  /\ e.event_type = "purchase" /\ e.order_id # NoOrder
  /\ \E x \in DOMAIN B : x.event_type = "purchase" /\ x.order_id = e.order_id /\ B[x] > 0
RECURSIVE SeqHasDuplicate(_, _)
SeqHasDuplicate(B, rows) ==
  /\ rows # <<>>
  /\ \/ HasPurchase(B, Head(rows))
     \/ SeqHasDuplicate(B (+) SetToBag({Head(rows)}), Tail(rows))

\* ------------------------------------------------------------ POST /api/track
\* the events a storefront sends; isValid is the outcome of trackEventSchema
\* events that name the first variant of another test
ForeignEvents == {Event(t, <<u, 1>>, "v1", "view", NoOrder) : t \in TestIds, u \in OtherTests}
TrackEvents ==
  {Event(t, <<t, 1>>, "v1", "purchase", o) : t \in TestIds, o \in {NoOrder} \cup OrderIds}
  \cup ForeignEvents
BatchEvents ==
  {Event(t, <<t, 1>>, "v1", "purchase", o) : t \in TestIds, o \in OrderIds} \cup ForeignEvents
MaxBatch == 1
TrackBodies ==
  {[isBatch |-> FALSE, isValid |-> TRUE, events |-> <<e>>, raw |-> <<>>] : e \in TrackEvents}
  \cup {[isBatch |-> FALSE, isValid |-> FALSE, events |-> <<>>, raw |-> <<>>]}
  \cup {[isBatch |-> TRUE, isValid |-> TRUE, events |-> es, raw |-> <<>>] :
          es \in UNION {[1..n -> BatchEvents] : n \in 0..MaxBatch}}

NoBody == [isBatch |-> FALSE, isValid |-> FALSE, events |-> <<>>, raw |-> <<>>]
IdleTrack ==
  [pc |-> "idle", body |-> NoBody, resp |-> [code |-> 0, error |-> NoError], writes |-> 0,
   dupAtWrite |-> FALSE, insertError |-> NoError,
   namedForeign |-> FALSE, storedForeign |-> FALSE, statusSeen |-> "none"]

\* a request that has answered keeps its response, not its body
TrackEnd(req) ==
  IF req.pc = "done"
    THEN [req EXCEPT !.body = [NoBody EXCEPT !.isBatch = req.body.isBatch, !.raw = req.body.raw]]
    ELSE req

\* the event names a variant whose row is not a row of the event's test
NamesForeign(e) == e.variant_id[1] # e.test_id

\* the tracking requests and webhook deliveries received so far
EventRequests ==
  Cardinality({k \in TrackIds : track[k].pc # "idle"})
    + Cardinality({h \in HookIds : hook[h].pc # "idle"})

AfterEventInsertSwallow(req, error, failure) ==
  [req EXCEPT !.pc = "done", !.resp = [code |-> 200, error |-> NoError]]
\* the answer to the error of an insert
AfterEventInsert(req, error, failure) ==
  IF error # NoError
    THEN [req EXCEPT !.pc = "done", !.resp = [code |-> 500, error |-> failure]]
    ELSE [req EXCEPT !.pc = "done", !.resp = [code |-> 200, error |-> NoError]]

AfterTrackFetchTestAnyStatus(req, status) ==
  IF status \notin Statuses
    THEN [req EXCEPT !.pc = "done", !.resp = [code |-> 404, error |-> "Test not found"]]
    ELSE [req EXCEPT !.pc = "variant"]
\* "if (testError || !test)" and "if (test.status !== 'active' &&
\* test.status !== 'completed')"
AfterTrackFetchTest(req, status) ==
  IF status \notin Statuses
    THEN [req EXCEPT !.pc = "done", !.resp = [code |-> 404, error |-> "Test not found"]]
  ELSE IF status # "active" /\ status # "completed"
    THEN [req EXCEPT !.pc = "done", !.resp = [code |-> 400, error |-> "Test is not active"]]
  ELSE [req EXCEPT !.pc = "variant"]

\* a batch: validation and the one insert of all its events; a single event:
\* validation, the select of the test and the status check
TrackReceive(k, body, fault) ==
  /\ track[k].pc = "idle"
  /\ \A q \in TrackIds : q < k => track[q].pc # "idle"
  /\ EventRequests < NumEvent
  /\ LET req == [track[k] EXCEPT !.body = body,
                                 !.namedForeign = \E i \in DOMAIN body.events : NamesForeign(body.events[i])] IN
     IF ~body.isValid THEN
       /\ track' = [track EXCEPT ![k] =
            TrackEnd([req EXCEPT !.pc = "done", !.resp = [code |-> 400, error |-> "Invalid request"]])]
       /\ UNCHANGED events
     ELSE IF body.isBatch THEN
       LET res == EventsInsert(events, body.events, fault) IN
       /\ events' = res.rows
       /\ track' = [track EXCEPT ![k] =
            TrackEnd(AfterEventInsert([req EXCEPT !.writes = @ + 1, !.insertError = res.error,
                                                  !.dupAtWrite = SeqHasDuplicate(events, body.events),
                                                  !.storedForeign = req.namedForeign /\ res.rows # events],
                                      res.error, "Failed to record events"))]
     ELSE
       LET status == tests[body.events[1].test_id] IN
       /\ ~fault
       /\ track' = [track EXCEPT ![k] =
            TrackEnd(AfterTrackFetchTest([req EXCEPT !.statusSeen = status], status))]
       /\ UNCHANGED events
  /\ UNCHANGED <<tests, variants, assignments, create, bucket, sel, stats, hook, secretSet>>

VariantOfAnyTest(e) == e.variant_id \in AllVariantIds
\* select id from variants where id = variant_id and test_id = test_id
VariantOfTest(e) == e.variant_id \in VariantIdsOf(e.test_id)

\* "Verify the variant belongs to this test"
TrackFetchVariant(k) ==
  /\ track[k].pc = "variant"
  /\ LET e == track[k].body.events[1] IN
     track' = [track EXCEPT ![k] = TrackEnd(
       IF VariantOfTest(e)
         THEN [@ EXCEPT !.pc = "insert"]
         ELSE [@ EXCEPT !.pc = "done", !.resp = [code |-> 400, error |-> "Invalid variant for this test"]])]
  /\ UNCHANGED <<tests, variants, assignments, events, create, bucket, sel, stats, hook, secretSet>>

\* "Insert the event"
TrackInsert(k, fault) ==
  /\ track[k].pc = "insert"
  /\ LET e == track[k].body.events[1]
         res == EventsInsert(events, <<e>>, fault) IN
     /\ events' = res.rows
     /\ track' = [track EXCEPT ![k] =
          TrackEnd(AfterEventInsert([@ EXCEPT !.writes = @ + 1, !.insertError = res.error,
                                              !.dupAtWrite = HasPurchase(events, e),
                                              !.storedForeign = NamesForeign(e) /\ res.rows # events],
                                    res.error, "Failed to record event"))]
  /\ UNCHANGED <<tests, variants, assignments, create, bucket, sel, stats, hook, secretSet>>

\* ------------------------------------------------ POST /api/webhooks/shopify
NoNote == [test_id |-> "none", variant_id |-> NoVariant, visitor_id |-> "none"]
Note(t, vid, vis) == [test_id |-> t, variant_id |-> vid, visitor_id |-> vis]
\* "If we have test attribution from note attributes": the three are there
HasNoteAttribution(note) ==
  note.test_id # "none" /\ note.variant_id # NoVariant /\ note.visitor_id # "none"
NoCustomer == "none"
ABCodes == {"AB1", "ABX"}
StartsWithAB(c) == c \in ABCodes

Order(o, note, codes, customer) ==
  [signature |-> "valid", topic |-> "orders/paid", schemaOk |-> TRUE,
   id |-> o, note |-> note, codes |-> codes, customer |-> customer]

\* deliveries: the note attributes of the theme snippet, discount codes, both
\* or neither, and the deliveries the handler rejects before reading the order
Deliveries ==
  {Order(o, NoNote, c[1], c[2]) :
     o \in OrderIds, c \in {<<<<>>, "7">>, <<<<"AB1">>, "7">>}}
  \cup {Order(o, Note(t, <<t, 2>>, "v1"), c[1], c[2]) :
          o \in OrderIds, t \in TestIds,
          c \in {<<<<>>, "7">>, <<<<"SAVE", "ABX", "AB1">>, NoCustomer>>}}
  \cup {[Order("o1", NoNote, <<"AB1">>, "7") EXCEPT !.signature = sg, !.schemaOk = ok] :
          sg \in {"invalid", "none"}, ok \in BOOLEAN}
  \cup {[Order("o1", NoNote, <<"AB1">>, "7") EXCEPT !.topic = "orders/create"],
        [Order("o1", NoNote, <<"AB1">>, "7") EXCEPT !.schemaOk = FALSE]}

HookOk(attributed) == [code |-> 200, error |-> NoError, attributed |-> attributed, message |-> "none"]
HookErr(c, e) == [code |-> c, error |-> e, attributed |-> FALSE, message |-> "none"]
IdleHook ==
  [pc |-> "idle", order |-> Order("none", NoNote, <<>>, NoCustomer),
   resp |-> [code |-> 0, error |-> NoError, attributed |-> FALSE, message |-> "none"],
   idx |-> 0, variant |-> NoVariant, writes |-> 0, dupAtWrite |-> FALSE, eventError |-> NoError,
   verified |-> FALSE, parsed |-> FALSE]

\* a delivery that has been answered keeps its response, not the order
HookEnd(req) ==
  IF req.pc = "done"
    THEN [req EXCEPT !.order = Order("none", NoNote, <<>>, NoCustomer), !.idx = 0, !.variant = NoVariant]
    ELSE req

VerifyAnySignature(signature) == TRUE
\* verifyShopifyWebhook: the signature is present and equals the HMAC of the body
VerifyShopifyWebhook(signature) == signature = "valid"

\* the discount-code loop from position i on: the next code starting with
\* "AB" is looked up, and without one the order is not attributed
RECURSIVE AfterCodes(_, _)
AfterCodes(req, i) ==
  IF i > Len(req.order.codes)
    THEN [req EXCEPT !.pc = "done", !.resp = HookOk(FALSE)]
  ELSE IF StartsWithAB(req.order.codes[i])
    THEN [req EXCEPT !.pc = "findVariant", !.idx = i]
  ELSE AfterCodes(req, i + 1)

\* everything up to the first store call
HookReceive(h, order) ==
  /\ hook[h].pc = "idle"
  /\ \A q \in HookIds : q < h => hook[q].pc # "idle"
  /\ EventRequests < NumEvent
  /\ LET req == [hook[h] EXCEPT !.order = order, !.verified = (secretSet /\ order.signature = "valid")]
         body == [req EXCEPT !.parsed = TRUE] IN
     hook' = [hook EXCEPT ![h] = HookEnd(
       IF ~secretSet
         THEN [req EXCEPT !.pc = "done", !.resp = HookErr(500, "Webhook not configured")]
       ELSE IF ~VerifyShopifyWebhook(order.signature)
         THEN [req EXCEPT !.pc = "done", !.resp = HookErr(401, "Invalid signature")]
       ELSE IF order.topic # "orders/paid"
         THEN [req EXCEPT !.pc = "done",
                          !.resp = [HookOk(FALSE) EXCEPT !.message = "Ignored topic"]]
       ELSE IF ~order.schemaOk
         THEN [body EXCEPT !.pc = "done", !.resp = HookErr(400, "Invalid payload")]
       ELSE IF HasNoteAttribution(order.note) THEN [body EXCEPT !.pc = "fetchTest"]
       ELSE AfterCodes(body, 1))]
  /\ UNCHANGED <<tests, variants, assignments, events, create, bucket, sel, stats, track, secretSet>>

HookFetchTestAnyStatus(h) ==
  /\ hook[h].pc = "fetchTest"
  /\ hook' = [hook EXCEPT ![h] = HookEnd(
       IF Exists(hook[h].order.note.test_id)
         THEN [@ EXCEPT !.pc = "upsertNote"]
         ELSE AfterCodes(@, 1))]
  /\ UNCHANGED <<tests, variants, assignments, events, create, bucket, sel, stats, track, secretSet>>
\* "Verify the test exists": the select of the test named by the note attributes
HookFetchTest(h) ==
  /\ hook[h].pc = "fetchTest"
  /\ LET status == tests[hook[h].order.note.test_id] IN
     hook' = [hook EXCEPT ![h] = HookEnd(
       IF status = "active" \/ status = "completed"
         THEN [@ EXCEPT !.pc = "upsertNote"]
         ELSE AfterCodes(@, 1))]
  /\ UNCHANGED <<tests, variants, assignments, events, create, bucket, sel, stats, track, secretSet>>

\* the upsert of the purchase event; its error is logged and the answer is
\* the same
HookUpsert(h, row, fault) ==
  LET res == EventsUpsertIgnore(events, row, fault) IN
  /\ events' = res.rows
  /\ hook' = [hook EXCEPT ![h] =
       HookEnd([@ EXCEPT !.pc = "done", !.resp = HookOk(TRUE), !.writes = @ + 1,
                         !.eventError = res.error, !.dupAtWrite = HasPurchase(events, row)])]
  /\ UNCHANGED <<tests, variants, assignments, create, bucket, sel, stats, track, secretSet>>

HookUpsertNote(h, fault) ==
  /\ hook[h].pc = "upsertNote"
  /\ LET o == hook[h].order IN
     HookUpsert(h, Event(o.note.test_id, o.note.variant_id, o.note.visitor_id, "purchase", o.id), fault)

\* the variants whose discount_code is the code; .single() wants exactly one
VariantsByCode(c) == {vid \in AllVariantIds : variants[vid[1]][vid[2]].discount_code = c}

\* "Find variant by discount code", with its test
HookFindVariant(h) ==
  /\ hook[h].pc = "findVariant"
  /\ LET found == VariantsByCode(hook[h].order.codes[hook[h].idx]) IN
     hook' = [hook EXCEPT ![h] = HookEnd(
       IF Cardinality(found) = 1
            /\ LET vid == CHOOSE x \in found : TRUE IN
               tests[vid[1]] = "active" \/ tests[vid[1]] = "completed"
         THEN [@ EXCEPT !.pc = "upsertDiscount", !.variant = CHOOSE x \in found : TRUE]
         ELSE AfterCodes(@, hook[h].idx + 1))]
  /\ UNCHANGED <<tests, variants, assignments, events, create, bucket, sel, stats, track, secretSet>>

PseudoVisitorId(o) == IF o.customer # NoCustomer THEN "customer" ELSE "order"

HookUpsertDiscount(h, fault) ==
  /\ hook[h].pc = "upsertDiscount"
  /\ LET o == hook[h].order IN
     HookUpsert(h, Event(hook[h].variant[1], hook[h].variant, PseudoVisitorId(o), "purchase", o.id), fault)

\* ------------------------------------------ weighted selection on its own
MaxVariants == 3
SelWeights == {0, 1, 30, 50, 100}
SelLists == UNION {[1..n -> {Variant(w, NoCode) : w \in SelWeights}] : n \in 1..MaxVariants}
NoRandom == [num |-> 0, den |-> 1]
IdleSel == [pc |-> "idle", variants |-> <<>>, random |-> NoRandom, selected |-> 0]

SelectVariant(random) ==
  /\ sel.pc = "ready"
  /\ sel' = [sel EXCEPT !.pc = "done", !.random = random,
                        !.selected = WeightedSelect(sel.variants, random)]
  /\ UNCHANGED <<tests, variants, assignments, events, create, bucket, stats, track, hook, secretSet>>

SelectAgain ==
  /\ sel.pc = "done"
  /\ sel' = [sel EXCEPT !.pc = "ready", !.random = NoRandom, !.selected = 0]
  /\ UNCHANGED <<tests, variants, assignments, events, create, bucket, stats, track, hook, secretSet>>

\* ----------------------------------------------------------- input validation
\* the requests as they arrive, before bucketRequestSchema and trackEventSchema:
\* raw is the sequence of events of a tracking request as it was sent
NotUuid == "not-a-uuid"
Missing == "missing"
\* z.string().uuid()
IsUuid(x) == x # NotUuid /\ x # Missing
\* z.string().min(1)
NonEmptyString(x) == x # Missing /\ x # ""
NoRevenue == [present |-> FALSE, num |-> 0, den |-> 1]
Revenue(n, d) == [present |-> TRUE, num |-> n, den |-> d]

\* bucketRequestSchema
BucketRequestSchema(raw) == IsUuid(raw.test_id) /\ NonEmptyString(raw.visitor_id)

RawEvent(t, vid, vis, ty, o, rev) ==
  [test_id |-> t, variant_id |-> vid, visitor_id |-> vis, event_type |-> ty,
   order_id |-> o, revenue_cents |-> rev]

TrackEventSchemaAnyRevenue(e) ==
  /\ IsUuid(e.test_id) /\ IsUuid(e.variant_id[1]) /\ NonEmptyString(e.visitor_id)
  /\ e.event_type \in {"view", "add_to_cart", "purchase"}
\* trackEventSchema; revenue_cents is z.number().int().min(0).optional()
TrackEventSchema(e) ==
  /\ IsUuid(e.test_id) /\ IsUuid(e.variant_id[1]) /\ NonEmptyString(e.visitor_id)
  /\ e.event_type \in {"view", "add_to_cart", "purchase"}
  /\ ~e.revenue_cents.present \/ (e.revenue_cents.den = 1 /\ e.revenue_cents.num >= 0)

\* batchTrackEventsSchema
BatchTrackEventsSchema(es) == Len(es) <= 100 /\ \A i \in DOMAIN es : TrackEventSchema(es[i])

\* the body of a tracking request as the handler sees it after safeParse; of
\* validation.data the model keeps no revenue
TrackBody(isBatch, es) ==
  LET valid == IF isBatch THEN BatchTrackEventsSchema(es)
               ELSE Len(es) = 1 /\ TrackEventSchema(es[1])
  IN  [isBatch |-> isBatch, isValid |-> valid,
       events |-> IF valid
                    THEN [i \in DOMAIN es |->
                            Event(es[i].test_id, es[i].variant_id, es[i].visitor_id,
                                  es[i].event_type, es[i].order_id)]
                    ELSE <<>>,
       raw |-> es]

\* well-formed events and events with one field outside its schema
RawEvents ==
  {RawEvent(t, <<t, 1>>, "v1", "view", NoOrder, NoRevenue) : t \in TestIds}
  \cup {RawEvent(t, <<t, 1>>, "v1", "purchase", o, Revenue(1999, 1)) : t \in TestIds, o \in OrderIds}
  \cup {RawEvent(NotUuid, <<t, 1>>, "v1", "view", NoOrder, NoRevenue) : t \in TestIds}
  \cup {RawEvent(t, <<NotUuid, 0>>, "v1", "view", NoOrder, NoRevenue) : t \in TestIds}
  \cup {RawEvent(t, <<t, 1>>, vis, "view", NoOrder, NoRevenue) : t \in TestIds, vis \in {Missing, ""}}
  \cup {RawEvent(t, <<t, 1>>, "v1", "click", NoOrder, NoRevenue) : t \in TestIds}
  \cup {RawEvent(t, <<t, 1>>, "v1", "purchase", NoOrder, rev) :
          t \in TestIds, rev \in {Revenue(-1, 1), Revenue(3, 2)}}
\* single events, and batches of a well-formed event and one with a negative
\* revenue
RawTrackRequests ==
  {<<FALSE, <<e>>>> : e \in RawEvents}
  \cup {<<TRUE, es>> :
          es \in UNION {[1..n -> {RawEvent(t, <<t, 1>>, "v1", "view", NoOrder, rev) :
                                    t \in TestIds, rev \in {NoRevenue, Revenue(-1, 1)}}] :
                          n \in 0..MaxBatch}}

\* GET /api/bucket/{testId} from its first line: validation, then the select
BucketRequest(r, raw) ==
  IF BucketRequestSchema(raw) THEN BucketFetchTest(r, raw.test_id, raw.visitor_id)
  ELSE
    /\ bucket[r].pc = "idle"
    /\ \A q \in BucketIds : q < r => bucket[q].pc # "idle"
    /\ bucket' = [bucket EXCEPT ![r] =
         [@ EXCEPT !.pc = "done", !.testId = raw.test_id, !.visitorId = raw.visitor_id,
                   !.resp = Err(400, "Invalid request")]]
    /\ UNCHANGED <<tests, variants, assignments, events, nonBucketVars>>

\* ------------------------------------------------------ the statistics engine
\* A JavaScript number is modelled as an exact rational [num, den] in lowest
\* terms with den > 0; the rounding of the floating-point operations is left
\* out. The result of Math.sqrt is kept as its sign and its square, and is NaN
\* for a negative argument.
Abs(x) == IF x < 0 THEN -x ELSE x
Sign(x) == IF x < 0 THEN -1 ELSE IF x > 0 THEN 1 ELSE 0
RECURSIVE GCD(_, _)
GCD(a, b) == IF b = 0 THEN a ELSE GCD(b, a % b)
Rat(n, d) ==
  LET g == GCD(Abs(n), Abs(d))
      s == Sign(d)
  IN  [num |-> (s * n) \div g, den |-> (s * d) \div g]
Zero == Rat(0, 1)
One == Rat(1, 1)
RatAdd(x, y) ==
  LET g == GCD(x.den, y.den)
  IN  Rat(x.num * (y.den \div g) + y.num * (x.den \div g), (x.den \div g) * y.den)
RatSub(x, y) == RatAdd(x, [num |-> -y.num, den |-> y.den])
RatMul(x, y) ==
  LET g1 == GCD(Abs(x.num), y.den)
      g2 == GCD(Abs(y.num), x.den)
  IN  IF x.num = 0 \/ y.num = 0 THEN Zero
      ELSE [num |-> (x.num \div g1) * (y.num \div g2),
            den |-> (x.den \div g2) * (y.den \div g1)]
RatDiv(x, y) == RatMul(x, Rat(y.den, y.num))
\* x < y, by the integer parts and then by the remainders
RatLess(x, y) ==
  LET fx == x.num \div x.den
      fy == y.num \div y.den
  IN  IF fx # fy THEN fx < fy
      ELSE (x.num - fx * x.den) * y.den < (y.num - fy * y.den) * x.den
RatSquare(x) == RatMul(x, x)
\* Math.ceil
Ceil(x) == -((-x.num) \div x.den)
\* Math.max on integers
Max(a, b) == IF a > b THEN a ELSE b

ZeroRoot == [nan |-> FALSE, sign |-> 0, sq |-> Zero]
\* Math.sqrt
Sqrt(q) ==
  IF q.num < 0 THEN [nan |-> TRUE, sign |-> 0, sq |-> Zero]
  ELSE [nan |-> FALSE, sign |-> Sign(q.num), sq |-> q]
\* se > 0, which is false for NaN
RootPositive(r) == ~r.nan /\ r.sign > 0
\* d / se for se > 0
RatOverRoot(d, r) == [nan |-> FALSE, sign |-> Sign(d.num), sq |-> RatDiv(RatSquare(d), r.sq)]

\* normalInverseCDF at the probabilities the engine asks for, rounded to two
\* decimals (1.6449, 1.9600 and 0.8416 in the code's approximation)
NormalInverseCDF(p) ==
  CASE p = Rat(95, 100) -> Rat(164, 100)
    [] p = Rat(975, 1000) -> Rat(196, 100)
    [] p = Rat(80, 100) -> Rat(84, 100)

\* pValue < alpha for pValue = 2 * (1 - normalCDF(Math.abs(stat))): normalCDF
\* increases with its argument and reaches 1 - alpha / 2 at the critical value
PValueBelow(stat, alpha) ==
  LET critical == NormalInverseCDF(RatSub(One, RatDiv(alpha, Rat(2, 1))))
  IN  ~stat.nan /\ RatLess(RatSquare(critical), stat.sq)

\* [max(0, p - zCritical * se), min(1, p + zCritical * se)], kept as its centre
\* and the square of its half width; NaN when se is
ConfidenceInterval(p, zCritical, se) ==
  [nan |-> se.nan, centre |-> p, halfSq |-> RatMul(RatSquare(zCritical), se.sq)]

Arm(v, c, r) == [visitors |-> v, conversions |-> c, revenue_cents |-> r]

CalculateConversionSignificance(control, variant, confidenceLevel) ==
  LET n1 == control.visitors
      x1 == control.conversions
      n2 == variant.visitors
      x2 == variant.conversions
      p1 == IF n1 > 0 THEN Rat(x1, n1) ELSE Zero
      p2 == IF n2 > 0 THEN Rat(x2, n2) ELSE Zero
      pPooled == IF n1 + n2 > 0 THEN Rat(x1 + x2, n1 + n2) ELSE Zero
      se == IF n1 > 0 /\ n2 > 0
              THEN Sqrt(RatMul(RatMul(pPooled, RatSub(One, pPooled)),
                               RatAdd(Rat(1, n1), Rat(1, n2))))
              ELSE ZeroRoot
      z == IF RootPositive(se) THEN RatOverRoot(RatSub(p2, p1), se) ELSE ZeroRoot
      alpha == RatSub(One, confidenceLevel)
      zCritical == NormalInverseCDF(RatSub(One, RatDiv(alpha, Rat(2, 1))))
      se1 == IF n1 > 0 THEN Sqrt(RatDiv(RatMul(p1, RatSub(One, p1)), Rat(n1, 1))) ELSE ZeroRoot
      se2 == IF n2 > 0 THEN Sqrt(RatDiv(RatMul(p2, RatSub(One, p2)), Rat(n2, 1))) ELSE ZeroRoot
      mde == Rat(5, 100)
      power == Rat(8, 10)
      zAlpha == NormalInverseCDF(RatSub(One, RatDiv(alpha, Rat(2, 1))))
      zBeta == NormalInverseCDF(power)
      baseRate == IF RatLess(Zero, p1) THEN p1 ELSE Rat(3, 100)
      recommendedSampleSize ==
        Ceil(RatDiv(RatMul(RatMul(RatMul(Rat(2, 1), RatSquare(RatAdd(zAlpha, zBeta))),
                                  baseRate),
                           RatSub(One, baseRate)),
                    RatSquare(RatMul(baseRate, mde))))
  IN  [controlRate |-> p1,
       variantRate |-> p2,
       absoluteLift |-> RatSub(p2, p1),
       relativeLift |-> IF RatLess(Zero, p1)
                          THEN RatMul(RatDiv(RatSub(p2, p1), p1), Rat(100, 1))
                          ELSE Zero,
       standardError |-> se,
       zScore |-> z,
       significant |-> PValueBelow(z, alpha),
       confidenceLevel |-> confidenceLevel,
       controlCI |-> ConfidenceInterval(p1, zCritical, se1),
       variantCI |-> ConfidenceInterval(p2, zCritical, se2),
       sampleSizeReached |-> IF n1 < n2 THEN n1 >= recommendedSampleSize
                                        ELSE n2 >= recommendedSampleSize,
       recommendedSampleSize |-> recommendedSampleSize]

\* called without individual revenues: the variance is estimated as rpv * rpv
RECURSIVE SumOf(_)
SumOf(xs) == IF xs = <<>> THEN 0 ELSE Head(xs) + SumOf(Tail(xs))
RECURSIVE SumSquaredDeviations(_, _)
SumSquaredDeviations(xs, mean) ==
  IF xs = <<>> THEN Zero
  ELSE RatAdd(RatSquare(RatSub(Rat(Head(xs), 1), mean)), SumSquaredDeviations(Tail(xs), mean))
\* "Calculate sample variance from individual data", for a sample that is not
\* empty, as a number q or NaN: the sum of one squared deviation is 0, and
\* 0 / (1 - 1) is NaN
SampleVariance(xs) ==
  LET mean == Rat(SumOf(xs), Len(xs))
  IN  IF Len(xs) - 1 = 0 THEN [nan |-> TRUE, q |-> Zero]
      ELSE [nan |-> FALSE,
            q |-> RatDiv(SumSquaredDeviations(xs, mean), Rat(Len(xs) - 1, 1))]
\* "Estimate variance assuming Poisson-like distribution"
EstimatedVariance(rpv) ==
  [nan |-> FALSE, q |-> IF RatLess(Zero, rpv) THEN RatSquare(rpv) ELSE Zero]
\* var1 and var2
RevenueVariances(rpv1, rpv2, controlRevenues, variantRevenues) ==
  IF Len(controlRevenues) > 0 /\ Len(variantRevenues) > 0
    THEN <<SampleVariance(controlRevenues), SampleVariance(variantRevenues)>>
    ELSE <<EstimatedVariance(rpv1), EstimatedVariance(rpv2)>>
\* rev / n, or 0 without visitors
RevenuePerVisitor(arm) == IF arm.visitors > 0 THEN Rat(arm.revenue_cents, arm.visitors) ELSE Zero

CalculateRevenueSignificance(control, variant, controlRevenues, variantRevenues, confidenceLevel) ==
  LET n1 == control.visitors
      rev1 == control.revenue_cents
      n2 == variant.visitors
      rev2 == variant.revenue_cents
      rpv1 == RevenuePerVisitor(control)
      rpv2 == RevenuePerVisitor(variant)
      var == RevenueVariances(rpv1, rpv2, controlRevenues, variantRevenues)
      se == IF var[1].nan \/ var[2].nan THEN [nan |-> TRUE, sign |-> 0, sq |-> Zero]
            ELSE Sqrt(RatAdd(RatDiv(var[1].q, Rat(Max(n1, 1), 1)),
                             RatDiv(var[2].q, Rat(Max(n2, 1), 1))))
      t == IF RootPositive(se) THEN RatOverRoot(RatSub(rpv2, rpv1), se) ELSE ZeroRoot
      alpha == RatSub(One, confidenceLevel)
  IN  [controlRPV |-> rpv1,
       variantRPV |-> rpv2,
       absoluteLift |-> RatSub(rpv2, rpv1),
       relativeLift |-> IF RatLess(Zero, rpv1)
                          THEN RatMul(RatDiv(RatSub(rpv2, rpv1), rpv1), Rat(100, 1))
                          ELSE Zero,
       tStatistic |-> t,
       significant |-> PValueBelow(t, alpha),
       confidenceLevel |-> confidenceLevel]

WinnerRevenueFirst(conversion, revenue) ==
  IF ~conversion.sampleSizeReached THEN "none"
  ELSE IF ~conversion.significant /\ ~revenue.significant THEN "none"
  ELSE IF revenue.significant /\ RatLess(Zero, revenue.relativeLift) THEN "variant"
  ELSE IF revenue.significant /\ RatLess(revenue.relativeLift, Zero) THEN "control"
  ELSE IF conversion.significant /\ RatLess(Zero, conversion.relativeLift) THEN "variant"
  ELSE IF conversion.significant /\ RatLess(conversion.relativeLift, Zero) THEN "control"
  ELSE "none"
\* "Determine winner"
Winner(conversion, revenue) ==
  IF ~conversion.sampleSizeReached THEN "none"
  ELSE IF ~conversion.significant /\ ~revenue.significant THEN "none"
  ELSE IF conversion.significant /\ RatLess(Zero, conversion.relativeLift) THEN "variant"
  ELSE IF conversion.significant /\ RatLess(conversion.relativeLift, Zero) THEN "control"
  ELSE IF revenue.significant /\ RatLess(Zero, revenue.relativeLift) THEN "variant"
  ELSE IF revenue.significant /\ RatLess(revenue.relativeLift, Zero) THEN "control"
  ELSE "none"

\* the recommendation by the sentence it is built from; "" as initialised
Recommendation(conversion, revenue) ==
  IF ~conversion.sampleSizeReached THEN "Need more data."
  ELSE IF ~conversion.significant /\ ~revenue.significant
    THEN "No statistically significant difference detected."
  ELSE IF conversion.significant /\ RatLess(Zero, conversion.relativeLift)
    THEN "Variant shows lift in conversion rate."
  ELSE IF conversion.significant /\ RatLess(conversion.relativeLift, Zero)
    THEN "Control performs better."
  ELSE IF revenue.significant /\ RatLess(Zero, revenue.relativeLift)
    THEN "Variant shows lift in revenue per visitor."
  ELSE IF revenue.significant /\ RatLess(revenue.relativeLift, Zero)
    THEN "Control generates more revenue."
  ELSE ""

AnalyzeTest(control, variant, confidenceLevel) ==
  LET conversion == CalculateConversionSignificance(control, variant, confidenceLevel)
      revenue == CalculateRevenueSignificance(control, variant, <<>>, <<>>, confidenceLevel)
  IN  [conversion |-> conversion, revenue |-> revenue, winner |-> Winner(conversion, revenue),
       recommendation |-> Recommendation(conversion, revenue)]

CalculateRequiredSampleSize(baselineConversionRate, minimumDetectableEffect, power, significanceLevel) ==
  LET alpha == significanceLevel
      zAlpha == NormalInverseCDF(RatSub(One, RatDiv(alpha, Rat(2, 1))))
      zBeta == NormalInverseCDF(power)
      p1 == baselineConversionRate
      p2 == RatMul(p1, RatAdd(One, minimumDetectableEffect))
      pBar == RatDiv(RatAdd(p1, p2), Rat(2, 1))
  IN  Ceil(RatDiv(RatMul(RatMul(RatMul(Rat(2, 1), pBar), RatSub(One, pBar)),
                         RatSquare(RatAdd(zAlpha, zBeta))),
                  RatSquare(RatSub(p2, p1))))

\* the per-variant counts the engine is given: counts of view rows, of purchase
\* rows and the sum of their revenue, so purchases may outnumber views
SmallArms ==
  {Arm(0, 0, 0), Arm(1, 2, 1), Arm(64, 2, 128), Arm(1024, 0, 0),
   Arm(1024, 960, 3072), Arm(1024, 960, 1024), Arm(1024, 1024, 1024)}
LargeArms == {Arm(262144, 0, 0), Arm(262144, 131072, 262144), Arm(262144, 0, 524288)}
StatsInputs == (SmallArms \X SmallArms) \cup (LargeArms \X LargeArms)
ConfidenceLevels == {Rat(90, 100), Rat(95, 100)}
\* the baseline of a sample-size request: the default and the rates of the arms
BaselineRates ==
  {Rat(3, 100)} \cup {Rat(a.conversions, a.visitors) :
                        a \in {b \in SmallArms \cup LargeArms : b.conversions > 0}}

NoAnalysis == [winner |-> "none", recommendation |-> ""]
IdleStats ==
  [pc |-> "idle", control |-> Arm(0, 0, 0), variant |-> Arm(0, 0, 0),
   confidenceLevel |-> Zero, analysis |-> NoAnalysis,
   required |-> [baseline |-> Zero, significanceLevel |-> Zero, n |-> 0],
   sampled |-> [controlRevenues |-> <<>>, variantRevenues |-> <<>>],
   live |-> [variant_id |-> NoVariant, visitors |-> 0, conversions |-> 0]]

StatsAnalyze ==
  /\ stats.pc = "input"
  /\ stats' = [stats EXCEPT !.pc = "analyzed",
                 !.analysis = AnalyzeTest(stats.control, stats.variant, stats.confidenceLevel)]
  /\ UNCHANGED <<tests, variants, assignments, events, create, bucket, sel, track, hook, secretSet>>

\* select("visitor_id", {count: "exact", head: true}) with the two filters:
\* the number of rows
CountExact(B, vid, type) ==
  BagCardinality([e \in {x \in DOMAIN B : x.variant_id = vid /\ x.event_type = type} |-> B[e]])
\* test_stats: COUNT(DISTINCT CASE WHEN e.event_type = type THEN e.visitor_id
\* END) of the group of the variant, computed over the events B
CountDistinctVisitors(B, vid, type) ==
  Cardinality({e.visitor_id : e \in {x \in BagToSet(B) : x.variant_id = vid /\ x.event_type = type}})

\* the real-time stats of one variant: "Count unique visitors (views)"
LiveCountVisitors(vid) ==
  /\ stats.pc = "idle"
  /\ stats' = [stats EXCEPT !.pc = "visitors",
                 !.live = [variant_id |-> vid, visitors |-> CountExact(events, vid, "view"),
                           conversions |-> 0]]
  /\ UNCHANGED <<tests, variants, assignments, events, create, bucket, sel, track, hook, secretSet>>

\* "Count conversions (unique purchasers)"
LiveCountConversions ==
  /\ stats.pc = "visitors"
  /\ stats' = [stats EXCEPT !.pc = "live",
                 !.live.conversions = CountExact(events, stats.live.variant_id, "purchase")]
  /\ UNCHANGED <<tests, variants, assignments, events, create, bucket, sel, track, hook, secretSet>>

\* the revenue test called with individual revenues; var1 and var2 are kept
\* next to the result
StatsRevenue(controlRevenues, variantRevenues) ==
  /\ stats.pc = "input"
  /\ stats' = [stats EXCEPT !.pc = "sampled",
                 !.sampled =
                   [controlRevenues |-> controlRevenues,
                    variantRevenues |-> variantRevenues,
                    var |-> RevenueVariances(RevenuePerVisitor(stats.control),
                                             RevenuePerVisitor(stats.variant),
                                             controlRevenues, variantRevenues),
                    result |-> CalculateRevenueSignificance(stats.control, stats.variant,
                                 controlRevenues, variantRevenues, stats.confidenceLevel)]]
  /\ UNCHANGED <<tests, variants, assignments, events, create, bucket, sel, track, hook, secretSet>>

\* the sample-size calculator, asked for a 5% effect with 80% power
StatsRequired(baseline, significanceLevel) ==
  /\ stats.pc = "analyzed"
  /\ stats' = [stats EXCEPT !.pc = "done",
                 !.required = [baseline |-> baseline, significanceLevel |-> significanceLevel,
                               n |-> CalculateRequiredSampleSize(baseline, Rat(5, 100), Rat(8, 10),
                                                                 significanceLevel)]]
  /\ UNCHANGED <<tests, variants, assignments, events, create, bucket, sel, track, hook, secretSet>>

\* ------------------------------------------------------------ specifications
EmptyStore ==
  /\ tests = [t \in TestIds |-> "absent"]
  /\ variants = [t \in TestIds |-> <<>>]
  /\ assignments = {}
  /\ events = EmptyBag
  /\ create = IdleCreate

NoEventRequests ==
  /\ track = [k \in TrackIds |-> IdleTrack]
  /\ hook = [h \in HookIds |-> IdleHook]
  /\ secretSet = TRUE

Init ==
  /\ EmptyStore
  /\ bucket = [r \in BucketIds |-> IdleBucket]
  /\ sel = IdleSel
  /\ stats = IdleStats
  /\ NoEventRequests

Next ==
  \/ \E input \in CreateInputs, fault \in BOOLEAN : CreateInsertTest(input, fault)
  \/ \E fault \in BOOLEAN : CreateInsertVariants(fault)
  \/ \E fault \in BOOLEAN : CreateRollback(fault)
  \/ \E t \in TestIds, s \in Statuses : PatchStatus(t, s)
  \/ \E t \in TestIds : DeleteTest(t)
  \/ \E r \in BucketIds, t \in TestIds, v \in Visitors : BucketFetchTest(r, t, v)
  \/ \E r \in BucketIds, random \in Randoms(RandomSteps) : BucketLookup(r, random)
  \/ \E r \in BucketIds, fault \in BOOLEAN : BucketInsert(r, fault)
  \/ \E r \in BucketIds : BucketReread(r)

Spec == Init /\ [][Next]_vars

SelInit ==
  /\ EmptyStore
  /\ bucket = [r \in BucketIds |-> IdleBucket]
  /\ sel \in {[IdleSel EXCEPT !.pc = "ready", !.variants = vs] : vs \in SelLists}
  /\ stats = IdleStats
  /\ NoEventRequests

SelNext ==
  \/ \E random \in Randoms(SelSteps) : SelectVariant(random)
  \/ SelectAgain

SelSpec == SelInit /\ [][SelNext]_vars

\* the event side: tracking requests and order webhooks against a store whose
\* tests were created before and are updated and deleted meanwhile
EvInit ==
  /\ tests = [t \in TestIds \cup OtherTests |-> "active"]
  /\ variants = [t \in TestIds \cup OtherTests |->
                  IF t \in TestIds THEN <<Variant(50, NoCode), Variant(50, "AB1")>>
                                   ELSE <<Variant(50, NoCode), Variant(50, NoCode)>>]
  /\ assignments = {}
  /\ events = EmptyBag
  /\ create = [IdleCreate EXCEPT !.pc = "done", !.code = 201]
  /\ bucket = [r \in BucketIds |-> IdleBucket]
  /\ sel = IdleSel
  /\ stats = IdleStats
  /\ track = [k \in TrackIds |-> IdleTrack]
  /\ hook = [h \in HookIds |-> IdleHook]
  /\ secretSet \in BOOLEAN

EvNext ==
  \/ \E t \in TestIds, st \in Statuses : PatchStatus(t, st)
  \/ \E t \in TestIds : DeleteTest(t)
  \/ \E k \in TrackIds, body \in TrackBodies, fault \in BOOLEAN : TrackReceive(k, body, fault)
  \/ \E k \in TrackIds : TrackFetchVariant(k)
  \/ \E k \in TrackIds, fault \in BOOLEAN : TrackInsert(k, fault)
  \/ \E h \in HookIds, order \in Deliveries : HookReceive(h, order)
  \/ \E h \in HookIds : HookFetchTest(h)
  \/ \E h \in HookIds, fault \in BOOLEAN : HookUpsertNote(h, fault)
  \/ \E h \in HookIds : HookFindVariant(h)
  \/ \E h \in HookIds, fault \in BOOLEAN : HookUpsertDiscount(h, fault)

EvSpec == EvInit /\ [][EvNext]_vars

\* bucketing and tracking requests side by side, NumEvent of them together,
\* against tests that are updated and deleted meanwhile
LateInit == EvInit /\ secretSet = TRUE

LateRequests == EventRequests + Cardinality({r \in BucketIds : bucket[r].pc # "idle"})

LateNext ==
  \/ \E t \in TestIds, st \in Statuses : PatchStatus(t, st)
  \/ \E t \in TestIds : DeleteTest(t)
  \/ \E r \in BucketIds, t \in TestIds, v \in Visitors :
       LateRequests < NumEvent /\ BucketFetchTest(r, t, v)
  \/ \E r \in BucketIds, random \in Randoms(RandomSteps) : BucketLookup(r, random)
  \/ \E r \in BucketIds, fault \in BOOLEAN : BucketInsert(r, fault)
  \/ \E r \in BucketIds : BucketReread(r)
  \/ \E k \in TrackIds, body \in {x \in TrackBodies : ~x.isBatch}, fault \in BOOLEAN :
       LateRequests < NumEvent /\ TrackReceive(k, body, fault)
  \/ \E k \in TrackIds : TrackFetchVariant(k)
  \/ \E k \in TrackIds, fault \in BOOLEAN : TrackInsert(k, fault)

LateSpec == LateInit /\ [][LateNext]_vars

\* the requests that write: bucketing, tracking and webhook deliveries side by
\* side, NumEvent of them together, while the test may be deleted
WriteNext ==
  \/ \E t \in TestIds : DeleteTest(t)
  \/ \E r \in BucketIds, t \in TestIds, v \in Visitors :
       LateRequests < NumEvent /\ BucketFetchTest(r, t, v)
  \/ \E r \in BucketIds, random \in Randoms(RandomSteps) : BucketLookup(r, random)
  \/ \E r \in BucketIds, fault \in BOOLEAN : BucketInsert(r, fault)
  \/ \E r \in BucketIds : BucketReread(r)
  \/ \E k \in TrackIds, body \in TrackBodies, fault \in BOOLEAN :
       LateRequests < NumEvent /\ TrackReceive(k, body, fault)
  \/ \E k \in TrackIds : TrackFetchVariant(k)
  \/ \E k \in TrackIds, fault \in BOOLEAN : TrackInsert(k, fault)
  \/ \E h \in HookIds, order \in Deliveries :
       LateRequests < NumEvent /\ HookReceive(h, order)
  \/ \E h \in HookIds : HookFetchTest(h)
  \/ \E h \in HookIds, fault \in BOOLEAN : HookUpsertNote(h, fault)
  \/ \E h \in HookIds : HookFindVariant(h)
  \/ \E h \in HookIds, fault \in BOOLEAN : HookUpsertDiscount(h, fault)

WriteSpec == LateInit /\ [][WriteNext]_vars

\* webhook deliveries alone, NumEvent of them, against tests that are updated
\* and deleted meanwhile; next to Deliveries, orders whose note attributes are
\* not all there, with and without the discount code of a variant
HookNext ==
  \/ \E t \in TestIds, st \in Statuses : PatchStatus(t, st)
  \/ \E t \in TestIds : DeleteTest(t)
  \/ \E h \in HookIds,
        order \in Deliveries \cup
                  {Order("o1", n, c, "7") :
                     n \in {Note("t1", <<"t1", 2>>, "none"), Note("none", <<"t1", 2>>, "v1")},
                     c \in {<<>>, <<"AB1">>}} :
       HookReceive(h, order)
  \/ \E h \in HookIds : HookFetchTest(h)
  \/ \E h \in HookIds, fault \in BOOLEAN : HookUpsertNote(h, fault)
  \/ \E h \in HookIds : HookFindVariant(h)
  \/ \E h \in HookIds, fault \in BOOLEAN : HookUpsertDiscount(h, fault)

HookSpec == LateInit /\ [][HookNext]_vars

\* the real-time stats of a variant read while tracking requests store events
LiveNext ==
  \/ \E k \in TrackIds, q \in {x \in RawTrackRequests : TrackBody(x[1], x[2]).isValid},
        fault \in BOOLEAN : TrackReceive(k, TrackBody(q[1], q[2]), fault)
  \/ \E k \in TrackIds : TrackFetchVariant(k)
  \/ \E k \in TrackIds, fault \in BOOLEAN : TrackInsert(k, fault)
  \/ \E t \in TestIds : \E vid \in VariantIdsOf(t) : LiveCountVisitors(vid)
  \/ LiveCountConversions

LiveSpec == LateInit /\ [][LiveNext]_vars

\* bucketing and tracking requests as they arrive, valid or not, NumEvent of
\* them together
InputNext ==
  \/ \E r \in BucketIds,
        raw \in {[test_id |-> t, visitor_id |-> v] :
                   t \in TestIds \cup {NotUuid}, v \in Visitors \cup {Missing, ""}} :
       LateRequests < NumEvent /\ BucketRequest(r, raw)
  \/ \E r \in BucketIds, random \in Randoms(RandomSteps) : BucketLookup(r, random)
  \/ \E r \in BucketIds, fault \in BOOLEAN : BucketInsert(r, fault)
  \/ \E r \in BucketIds : BucketReread(r)
  \/ \E k \in TrackIds, q \in RawTrackRequests, fault \in BOOLEAN :
       LateRequests < NumEvent /\ TrackReceive(k, TrackBody(q[1], q[2]), fault)
  \/ \E k \in TrackIds : TrackFetchVariant(k)
  \/ \E k \in TrackIds, fault \in BOOLEAN : TrackInsert(k, fault)

InputSpec == LateInit /\ [][InputNext]_vars

\* the statistics engine alone, on every input of StatsInputs
StatsInit ==
  /\ EmptyStore
  /\ bucket = [r \in BucketIds |-> IdleBucket]
  /\ sel = IdleSel
  /\ NoEventRequests
  /\ stats \in {[IdleStats EXCEPT !.pc = "input", !.control = in[1], !.variant = in[2],
                                  !.confidenceLevel = c] :
                  in \in StatsInputs, c \in ConfidenceLevels}

StatsNext ==
  \/ StatsAnalyze
  \/ \E c, v \in {<<>>, <<4>>, <<2, 4>>, <<1, 1, 4>>} : StatsRevenue(c, v)
  \/ \E b \in BaselineRates, c \in ConfidenceLevels : StatsRequired(b, RatSub(One, c))

StatsSpec == StatsInit /\ [][StatsNext]_vars

\* ------------------------------------------------------------------- claims
Done(r) == bucket[r].pc = "done"
RowsOf(t, v) == {a \in assignments : a.test_id = t /\ a.visitor_id = v}
RequestsOf(t, v) == {r \in BucketIds : bucket[r].testId = t /\ bucket[r].visitorId = v}
\* the requests that found the test active with variants and no assignment,
\* and went on to insert one
FirstTime(t, v) == {r \in RequestsOf(t, v) : bucket[r].inserts > 0}
InsertFailed(r) == bucket[r].insertError \notin {NoError, UNIQUE_VIOLATION}

\* C1: when all bucketing requests of a (test, visitor) pair have finished and
\* the test was not deleted, the first-time requests of the pair left exactly
\* one assignment row (unless every insert met a store fault, which leaves
\* none), and each of them that met no store fault answered 200 with the
\* variant of that row.
C1_ConcurrentFirstRequestsAgree ==
  \A t \in TestIds, v \in Visitors :
    (/\ Exists(t)
     /\ \A r \in RequestsOf(t, v) : Done(r)
     /\ FirstTime(t, v) # {})
    => /\ Cardinality(RowsOf(t, v)) <= 1
       /\ (\E r \in FirstTime(t, v) : ~InsertFailed(r)) => Cardinality(RowsOf(t, v)) = 1
       /\ \A r \in FirstTime(t, v) :
            \/ InsertFailed(r)
            \/ /\ bucket[r].resp.code = 200
               /\ \E a \in RowsOf(t, v) : a.variant_id = bucket[r].resp.variant_id

\* two finished requests of one pair raced: one insert succeeded, the other
\* met the unique constraint after selecting a different variant
C1_Witness ==
  \E r1, r2 \in BucketIds :
    /\ r1 # r2 /\ Done(r1) /\ Done(r2)
    /\ bucket[r1].testId = bucket[r2].testId /\ bucket[r1].visitorId = bucket[r2].visitorId
    /\ Exists(bucket[r1].testId)
    /\ bucket[r1].insertError = NoError /\ bucket[r1].inserts = 1
    /\ bucket[r2].insertError = UNIQUE_VIOLATION
    /\ bucket[r2].selected # bucket[r1].selected
    /\ bucket[r2].resp.variant_id = bucket[r1].resp.variant_id

C3_ExistingAssignmentReturned ==
  /\ [](\A r \in BucketIds :
          (Done(r) /\ bucket[r].rowSeen # NoVariant) =>
            /\ bucket[r].resp = Ok(bucket[r].rowSeen, FALSE)
            /\ bucket[r].inserts = 0
            /\ bucket[r].rereads = 0)
  /\ [][\A r \in BucketIds :
          (bucket'[r] # bucket[r] /\ bucket'[r].inserts = bucket[r].inserts) =>
            assignments' = assignments]_vars

C3_Witness ==
  \E r \in BucketIds :
    /\ Done(r) /\ bucket[r].rowSeen # NoVariant
    /\ bucket[r].resp = Ok(bucket[r].rowSeen, FALSE)
    /\ RowsOf(bucket[r].testId, bucket[r].visitorId) # {}

\* C4 as stated: a finished request whose insert failed with 23505 re-read
\* the assignment and answered 200 with the stored variant and
\* is_new_assignment = false; one whose insert failed with any other error
\* answered 500 'Failed to create assignment' without a variant.
C4_ConflictAlwaysAnsweredFromStore ==
  \A r \in BucketIds : Done(r) =>
    /\ bucket[r].insertError = UNIQUE_VIOLATION =>
         /\ bucket[r].rereads = 1
         /\ bucket[r].resp.code = 200
         /\ bucket[r].resp.is_new_assignment = FALSE
    /\ InsertFailed(r) => bucket[r].resp = Err(500, "Failed to create assignment")

\* C4, amended: a request whose insert failed with 23505 re-read the
\* assignment once; while the test is not deleted it answered 200 with the
\* stored variant and is_new_assignment = false, and once the test is deleted
\* it answered either that or, the re-read having found no row, 500 'Failed
\* to create assignment'; a request whose insert failed with any other error
\* answered 500 'Failed to create assignment' without a variant and without a
\* re-read.
C4_ConflictRereadOtherErrorFatal ==
  \A r \in BucketIds : Done(r) =>
    /\ bucket[r].insertError = UNIQUE_VIOLATION =>
         /\ bucket[r].rereads = 1
         /\ \/ bucket[r].resp.code = 200 /\ bucket[r].resp.is_new_assignment = FALSE
            \/ ~Exists(bucket[r].testId) /\ bucket[r].resp = Err(500, "Failed to create assignment")
    /\ (bucket[r].insertError = UNIQUE_VIOLATION /\ Exists(bucket[r].testId)) =>
         RowsOf(bucket[r].testId, bucket[r].visitorId) =
           {[test_id |-> bucket[r].testId, visitor_id |-> bucket[r].visitorId,
             variant_id |-> bucket[r].resp.variant_id]}
    /\ InsertFailed(r) =>
         /\ bucket[r].resp = Err(500, "Failed to create assignment")
         /\ bucket[r].rereads = 0

\* the stored variant is returned although another one was selected locally
C4_Witness ==
  \E r \in BucketIds :
    /\ Done(r) /\ bucket[r].insertError = UNIQUE_VIOLATION
    /\ bucket[r].resp.code = 200
    /\ bucket[r].resp.variant_id # <<bucket[r].testId, bucket[r].selected>>

C6_NoVariantsRejected ==
  \A r \in BucketIds :
    (/\ Done(r) /\ bucket[r].statusSeen = "active"
     /\ bucket[r].variantsSeen = <<>> /\ bucket[r].rowSeen = NoVariant) =>
      /\ bucket[r].resp = Err(400, "No variants configured for this test")
      /\ bucket[r].inserts = 0

C6_Witness ==
  \E r \in BucketIds :
    /\ Done(r) /\ bucket[r].statusSeen = "active" /\ bucket[r].lookups = 1
    /\ bucket[r].variantsSeen = <<>> /\ bucket[r].rowSeen = NoVariant
    /\ bucket[r].resp.code = 400

\* C7: no request looks up, attempts the insert or re-reads more than once:
\* a request waiting for one of these calls has not made it before, it re-reads
\* only after a 23505, a request that has not finished can take its next step
\* whatever the other requests do, and a finished one has a response.
NextStepEnabled(r) ==
  \/ bucket[r].pc = "lookup" /\ ENABLED (\E random \in Randoms(RandomSteps) : BucketLookup(r, random))
  \/ bucket[r].pc = "insert" /\ ENABLED (\E fault \in BOOLEAN : BucketInsert(r, fault))
  \/ bucket[r].pc = "reread" /\ ENABLED BucketReread(r)
C7_SingleInsertSingleReread ==
  \A r \in BucketIds :
    /\ bucket[r].inserts <= 1 /\ bucket[r].rereads <= 1 /\ bucket[r].lookups <= 1
    /\ bucket[r].pc = "lookup" => bucket[r].lookups = 0
    /\ bucket[r].pc = "insert" => bucket[r].inserts = 0
    /\ bucket[r].pc = "reread" => bucket[r].rereads = 0 /\ bucket[r].insertError = UNIQUE_VIOLATION
    /\ bucket[r].pc \notin {"idle", "done"} => NextStepEnabled(r)
    /\ Done(r) => bucket[r].resp.code # 0

C7_Witness ==
  \E r \in BucketIds : Done(r) /\ bucket[r].inserts = 1 /\ bucket[r].rereads = 1

\* C8: for a non-empty variant list and a draw in [0, total weight) the
\* selected variant is one of the list, its cumulative weight reaches the draw
\* and no earlier cumulative weight does; a single variant of weight 100 is
\* selected for every draw.
CumulativeWeight(vs, i) == SumWeights(SubSeq(vs, 1, i))
C8_FirstCumulativeWeightReachingDraw ==
  sel.pc = "done" =>
    /\ sel.selected \in 1..Len(sel.variants)
    /\ sel.random.den * CumulativeWeight(sel.variants, sel.selected) >=
         sel.random.num * SumWeights(sel.variants)
    /\ \A j \in 1..(sel.selected - 1) :
         sel.random.den * CumulativeWeight(sel.variants, j) <
           sel.random.num * SumWeights(sel.variants)
    /\ (Len(sel.variants) = 1 /\ sel.variants[1].weight = 100) => sel.selected = 1

\* a draw equal to the first cumulative weight selects the first variant
C8_Witness ==
  /\ sel.pc = "done" /\ Len(sel.variants) >= 2
  /\ sel.variants[1].weight > 0
  /\ sel.random.num * SumWeights(sel.variants) = sel.random.den * sel.variants[1].weight
  /\ sel.selected = 1

\* the requests and deliveries that have answered after writing to events
TrackWrote(k) == track[k].pc = "done" /\ track[k].writes > 0
HookWrote(h) == hook[h].pc = "done" /\ hook[h].writes > 0
PurchaseCount(o) == BagCardinality(PurchasesOf(events, o))

\* C9: recording a purchase for an order_id that already has a purchase event
\* leaves exactly one purchase event for the order and completes as a
\* successful no-op, not an error, for the order-paid webhook and for
\* POST /api/track, single and batch (a recording the store failed for
\* another reason aside)
C9_DuplicatePurchaseIsNoOp ==
  /\ \A h \in HookIds :
       (HookWrote(h) /\ hook[h].dupAtWrite /\ hook[h].eventError # OTHER_DB_ERROR) =>
         hook[h].resp.code = 200 /\ hook[h].eventError = NoError
  /\ \A k \in TrackIds :
       (TrackWrote(k) /\ track[k].dupAtWrite /\ track[k].insertError # OTHER_DB_ERROR) =>
         track[k].resp.code = 200 /\ track[k].insertError = NoError
  /\ \A o \in OrderIds :
       (\/ \E h \in HookIds : HookWrote(h) /\ hook[h].dupAtWrite
        \/ \E k \in TrackIds : TrackWrote(k) /\ track[k].dupAtWrite) =>
         /\ PurchaseCount(o) <= 1
         /\ (\A t \in TestIds : Exists(t)) => PurchaseCount(o) = 1

\* a webhook delivery recorded the order, and a tracking request that
\* recorded it again was answered 500 with the unique violation of the index
C9_Witness ==
  /\ \E h \in HookIds : HookWrote(h) /\ ~hook[h].dupAtWrite /\ hook[h].eventError = NoError
  /\ \E k \in TrackIds :
       /\ TrackWrote(k) /\ track[k].dupAtWrite
       /\ track[k].insertError = UNIQUE_VIOLATION /\ track[k].resp.code = 500
  /\ \A o \in OrderIds : PurchaseCount(o) = 1

\* C10: in every reachable state, after any interleaving of webhook
\* deliveries and tracking requests, the event store holds at most one
\* purchase event per non-null order_id
C10_OnePurchasePerOrder == \A o \in OrderIds : PurchaseCount(o) <= 1

\* two deliveries of the same order both wrote, the second found the order
\* recorded, and the store holds one purchase event for it
C10_Witness ==
  /\ \A h \in HookIds : HookWrote(h) /\ hook[h].resp.attributed
  /\ \E h \in HookIds : hook[h].dupAtWrite
  /\ \E h \in HookIds : ~hook[h].dupAtWrite /\ hook[h].eventError = NoError
  /\ \A o \in OrderIds : PurchaseCount(o) = 1

\* C11 as stated: no tracking request, single or batch, stored an event whose
\* variant is not a variant of the event's test, and a request that named
\* such a variant stored nothing
C11_StoredVariantBelongsToTest ==
  \A k \in TrackIds :
    /\ ~track[k].storedForeign
    /\ (track[k].namedForeign /\ track[k].pc = "done") =>
         ~(track[k].writes > 0 /\ track[k].insertError = NoError)

\* C11, amended: a single-event request reaches its insert only with a
\* variant of the event's test; one that names a variant of another test
\* stores nothing and, if its test is there and active or completed, answers
\* 400 'Invalid variant for this test'. (A batch is inserted without the
\* lookup of the variant.)
C11_SingleEventVariantBelongsToTest ==
  \A k \in TrackIds :
    /\ track[k].pc = "insert" => ~NamesForeign(track[k].body.events[1])
    /\ ~track[k].body.isBatch =>
         /\ ~track[k].storedForeign
         /\ (track[k].namedForeign /\ track[k].pc = "done") =>
              /\ track[k].writes = 0
              /\ track[k].resp.code \in {400, 404}

\* a single-event request was answered 400 'Invalid variant for this test'
\* and a batch stored the same event
C11_Witness ==
  /\ \E k \in TrackIds :
       /\ track[k].pc = "done" /\ ~track[k].body.isBatch /\ track[k].namedForeign
       /\ track[k].resp = [code |-> 400, error |-> "Invalid variant for this test"]
  /\ \E k \in TrackIds : track[k].pc = "done" /\ track[k].body.isBatch /\ track[k].storedForeign
  /\ \E e \in DOMAIN events : events[e] > 0 /\ NamesForeign(e)

\* C12: a single-event tracking request that found no test row answered 404
\* 'Test not found', one that found the test draft or paused answered 400
\* 'Test is not active', and neither wrote to events; a request wrote only
\* after finding the test active or completed; a bucketing request that
\* found the test completed answered 400 'Test is not active' without
\* touching assignments.
C12_TrackAcceptsCompletedBucketDoesNot ==
  /\ \A k \in TrackIds : (track[k].pc # "idle" /\ ~track[k].body.isBatch /\ track[k].statusSeen # "none") =>
       /\ (track[k].statusSeen \notin Statuses /\ track[k].pc = "done") =>
            track[k].resp = [code |-> 404, error |-> "Test not found"]
       /\ (track[k].statusSeen \in {"draft", "paused"} /\ track[k].pc = "done") =>
            track[k].resp = [code |-> 400, error |-> "Test is not active"]
       /\ track[k].statusSeen \notin {"active", "completed"} =>
            track[k].pc = "done" /\ track[k].writes = 0
  /\ \A r \in BucketIds : (Done(r) /\ bucket[r].statusSeen = "completed") =>
       /\ bucket[r].resp = Err(400, "Test is not active")
       /\ bucket[r].lookups = 0 /\ bucket[r].inserts = 0

\* a purchase was recorded for a test found completed, and a bucketing
\* request that found the test completed was rejected
C12_Witness ==
  /\ \E k \in TrackIds :
       /\ track[k].pc = "done" /\ track[k].statusSeen = "completed"
       /\ track[k].writes = 1 /\ track[k].resp.code = 200
  /\ \E r \in BucketIds :
       Done(r) /\ bucket[r].statusSeen = "completed" /\ bucket[r].resp.code = 400
  /\ \E e \in DOMAIN events : events[e] > 0

\* draft, then active or paused, then completed
StatusRank(st) == IF st = "draft" THEN 0 ELSE IF st = "completed" THEN 2 ELSE 1

\* C13: across status updates a test's status only moves forward along draft,
\* active, completed, pause and resume aside: no step takes a completed test
\* back to active, paused or draft, and no step takes a test back to draft
C13_StatusMovesForward ==
  [][\A t \in TestIds :
       (tests[t] \in Statuses /\ tests'[t] \in Statuses) =>
         StatusRank(tests'[t]) >= StatusRank(tests[t])]_vars

\* C14: in every reachable state a test whose status is active has at least
\* 2 variants, under any interleaving of a create-test request with status
\* updates on that test
C14_ActiveTestHasTwoVariants ==
  \A t \in TestIds : tests[t] = "active" => Len(variants[t]) >= 2

\* the test row is there, already activated, and the create-test request
\* has not inserted its variants yet
C14_Witness ==
  /\ create.pc = "variants" /\ tests[create.id] = "active"
  /\ variants[create.id] = <<>>

\* C15: the variants of every existing test, once inserted, have weights
\* summing to 100, as have those of a test whose create-test request was
\* answered 201; a request with at least 2 variants whose weights do not sum
\* to 100 is answered 400 'Variant weights must sum to 100', and the step
\* that rejects it writes no test row and no variant row
C15_CreatedWeightsSumTo100 ==
  /\ [](/\ \A t \in TestIds :
            (Exists(t) /\ variants[t] # <<>>) => SumWeights(variants[t]) = 100
        /\ (create.pc = "done" /\ create.code = 201 /\ Exists(create.id)) =>
             /\ variants[create.id] = create.input
             /\ SumWeights(variants[create.id]) = 100
        /\ (create.pc # "idle" /\ CreateSchemaValid(create.input)
               /\ SumWeights(create.input) # 100) =>
             /\ create.pc = "done" /\ create.code = 400 /\ create.id = "none"
             /\ create.error = "Variant weights must sum to 100")
  /\ [][(create' # create /\ create'.code = 400) =>
          (tests' = tests /\ variants' = variants)]_vars

\* weights 60 and 30 were rejected and the store holds no test
C15_Witness ==
  /\ create.pc = "done" /\ create.code = 400
  /\ CreateSchemaValid(create.input) /\ SumWeights(create.input) = 90
  /\ \A t \in TestIds : ~Exists(t) /\ variants[t] = <<>>

\* C16: the winner of analyzeTest is the outcome of the first rule that
\* matches, in this order: (1) conversion sample size not reached: none;
\* (2) neither conversion nor revenue significant: none; (3) conversion
\* significant with positive relative lift: variant; (4) conversion
\* significant with negative relative lift: control; (5) revenue significant
\* with positive lift: variant; (6) revenue significant with negative lift:
\* control. When conversion is significant its direction decides, even if
\* revenue is significant in the opposite direction.
C16_WinnerIsFirstMatchingRule ==
  stats.pc \in {"analyzed", "done"} =>
    LET c == stats.analysis.conversion
        r == stats.analysis.revenue
        rule1 == ~c.sampleSizeReached
        rule2 == ~c.significant /\ ~r.significant
        rule3 == c.significant /\ c.relativeLift.num > 0
        rule4 == c.significant /\ c.relativeLift.num < 0
        rule5 == r.significant /\ r.relativeLift.num > 0
        rule6 == r.significant /\ r.relativeLift.num < 0
        outcomes == <<"none", "none", "variant", "control", "variant", "control">>
        matching == {i \in 1..6 : <<rule1, rule2, rule3, rule4, rule5, rule6>>[i]}
    IN  /\ \A i \in matching :
             (\A j \in matching : i <= j) => stats.analysis.winner = outcomes[i]
        /\ (~rule1 /\ rule3 /\ rule6) => stats.analysis.winner = "variant"
        /\ (~rule1 /\ rule4 /\ rule5) => stats.analysis.winner = "control"

\* the sample size is reached, conversion is significantly up and revenue
\* significantly down: the variant wins
C16_Witness ==
  /\ stats.pc = "analyzed"
  /\ stats.analysis.conversion.sampleSizeReached
  /\ stats.analysis.conversion.significant /\ stats.analysis.conversion.relativeLift.num > 0
  /\ stats.analysis.revenue.significant /\ stats.analysis.revenue.relativeLift.num < 0
  /\ stats.analysis.winner = "variant"

\* C17: for every input with non-negative counts calculateConversionSignificance
\* returns a well-formed result, no field of which is NaN, with the
\* defined-zero policies: an arm with 0 visitors has rate 0, the standard
\* error is 0 when either arm has 0 visitors, zScore is 0 whenever the
\* standard error is 0, and relativeLift is 0 whenever the control rate is 0
C17_ConversionResultWellFormed ==
  stats.pc \in {"analyzed", "done"} =>
    LET c == stats.analysis.conversion
    IN  /\ stats.control.visitors = 0 => c.controlRate = Zero
        /\ stats.variant.visitors = 0 => c.variantRate = Zero
        /\ (stats.control.visitors = 0 \/ stats.variant.visitors = 0) =>
             c.standardError = ZeroRoot
        /\ c.standardError = ZeroRoot => c.zScore = ZeroRoot
        /\ c.controlRate = Zero => c.relativeLift = Zero
        /\ ~c.zScore.nan /\ ~c.controlCI.nan /\ ~c.variantCI.nan

\* more purchases than views in the control arm: its interval is NaN
C17_Witness ==
  /\ stats.pc = "analyzed"
  /\ stats.control.conversions > stats.control.visitors
  /\ stats.analysis.conversion.controlCI.nan

\* C18: the recommendedSampleSize of calculateConversionSignificance equals
\* calculateRequiredSampleSize(b, 0.05, 0.8, 1 - confidenceLevel), where b is
\* the control's conversion rate, or 0.03 when that rate is 0
C18_RecommendedEqualsRequired ==
  stats.pc = "done" =>
    LET c == stats.analysis.conversion
        b == IF c.controlRate = Zero THEN Rat(3, 100) ELSE c.controlRate
    IN  (/\ stats.required.baseline = b
         /\ stats.required.significanceLevel = RatSub(One, stats.confidenceLevel)) =>
          stats.required.n = c.recommendedSampleSize

\* the control converts at 0, both sizes are computed for the baseline 0.03
\* at the same level, and they differ
C18_Witness ==
  /\ stats.pc = "done" /\ stats.analysis.conversion.controlRate = Zero
  /\ stats.required.baseline = Rat(3, 100)
  /\ stats.required.significanceLevel = RatSub(One, stats.confidenceLevel)
  /\ stats.required.n # stats.analysis.conversion.recommendedSampleSize

\* C19: every request whose Assignment insert or Event insert or upsert
\* failed, other than with the 23505 the bucketing handles, is answered with
\* an error: no bucketing, tracking or webhook request reports success after
\* its write failed
C19_FailedWriteAnswersError ==
  /\ \A r \in BucketIds :
       (bucket[r].pc = "done" /\ bucket[r].insertError = OTHER_DB_ERROR) =>
         bucket[r].resp.code >= 400
  /\ \A k \in TrackIds :
       (track[k].pc = "done" /\ track[k].insertError # NoError) => track[k].resp.code >= 400
  /\ \A h \in HookIds :
       (hook[h].pc = "done" /\ hook[h].eventError # NoError) => hook[h].resp.code >= 400

\* C19, amended: a bucketing request whose insert failed other than with
\* 23505, and a tracking request whose insert failed, is answered 500; a
\* webhook delivery whose upsert failed is answered 200 with attributed true,
\* the error being logged only
C19_FailedWriteAnswersErrorButWebhook ==
  /\ \A r \in BucketIds :
       (bucket[r].pc = "done" /\ bucket[r].insertError = OTHER_DB_ERROR) =>
         bucket[r].resp = Err(500, "Failed to create assignment")
  /\ \A k \in TrackIds :
       (track[k].pc = "done" /\ track[k].insertError # NoError) =>
         /\ track[k].resp.code = 500
         /\ track[k].resp.error \in {"Failed to record event", "Failed to record events"}
  /\ \A h \in HookIds :
       (hook[h].pc = "done" /\ hook[h].eventError # NoError) => hook[h].resp = HookOk(TRUE)

\* a tracking request answered 500 and a webhook delivery answered 200, the
\* write of each having failed
C19_Witness ==
  /\ \E k \in TrackIds :
       track[k].pc = "done" /\ track[k].insertError # NoError /\ track[k].resp.code = 500
  /\ \E h \in HookIds :
       hook[h].pc = "done" /\ hook[h].eventError # NoError /\ hook[h].resp.code = 200

\* C20: the webhook handler fails closed: without a configured secret a
\* delivery is answered 500, with a missing or invalid signature 401, both
\* before the payload is parsed; a delivery is at a read of the store or at
\* the upsert of its event, or has written, only if it carries a valid
\* signature under the configured secret
C20_WebhookFailsClosed ==
  \A h \in HookIds :
    hook[h].pc # "idle" =>
      /\ ~secretSet =>
           /\ hook[h].pc = "done" /\ hook[h].resp = HookErr(500, "Webhook not configured")
           /\ ~hook[h].parsed /\ hook[h].writes = 0
      /\ (secretSet /\ ~hook[h].verified) =>
           /\ hook[h].pc = "done" /\ hook[h].resp = HookErr(401, "Invalid signature")
           /\ ~hook[h].parsed /\ hook[h].writes = 0
      /\ (hook[h].pc \in {"fetchTest", "findVariant", "upsertNote", "upsertDiscount"}
            \/ hook[h].writes > 0 \/ hook[h].parsed) => hook[h].verified

\* with the secret configured, one delivery without a valid signature was
\* answered 401 and has written nothing while another, validly signed, has
\* written its event
C20_Witness ==
  /\ secretSet
  /\ \E h \in HookIds :
       /\ hook[h].pc = "done" /\ ~hook[h].verified
       /\ hook[h].resp.code = 401 /\ hook[h].writes = 0
  /\ \E h \in HookIds :
       hook[h].pc = "done" /\ hook[h].verified /\ hook[h].writes > 0 /\ events # EmptyBag

\* C21: a bucketing or tracking request with invalid input (test_id or
\* variant_id not a UUID, visitor_id missing or empty, unknown event type,
\* negative or non-integer revenue_cents) is answered 400 'Invalid request'
\* before any read or write of the store: it has read no test, looked up,
\* inserted and re-read nothing, and the step that rejects it leaves the
\* store as it was
C21_InvalidInputRejectedBeforeStore ==
  /\ [](/\ \A r \in BucketIds :
            (bucket[r].pc # "idle"
               /\ (bucket[r].testId = NotUuid \/ bucket[r].visitorId \in {Missing, ""})) =>
              /\ bucket[r].pc = "done" /\ bucket[r].resp = Err(400, "Invalid request")
              /\ bucket[r].statusSeen = "none" /\ bucket[r].lookups = 0
              /\ bucket[r].inserts = 0 /\ bucket[r].rereads = 0
        /\ \A k \in TrackIds :
            (track[k].pc # "idle"
               /\ \E i \in DOMAIN track[k].body.raw :
                    LET e == track[k].body.raw[i] IN
                    \/ e.test_id = NotUuid \/ e.variant_id[1] = NotUuid
                    \/ e.visitor_id \in {Missing, ""}
                    \/ e.event_type \notin {"view", "add_to_cart", "purchase"}
                    \/ (e.revenue_cents.present
                          /\ (e.revenue_cents.num < 0 \/ e.revenue_cents.den # 1))) =>
              /\ track[k].pc = "done"
              /\ track[k].resp = [code |-> 400, error |-> "Invalid request"]
              /\ track[k].statusSeen = "none" /\ track[k].writes = 0)
  /\ [][(\/ \E r \in BucketIds :
               (bucket[r].pc = "idle" /\ bucket'[r].resp.error = "Invalid request")
          \/ \E k \in TrackIds :
               (track[k].pc = "idle" /\ track'[k].resp.error = "Invalid request")) =>
          UNCHANGED <<tests, variants, assignments, events>>]_vars

\* a bucketing request without visitor_id and a tracking request with a
\* negative revenue_cents were both answered 400, the store being empty of
\* assignments and events
C21_Witness ==
  /\ \E r \in BucketIds :
       /\ bucket[r].pc = "done" /\ bucket[r].visitorId = Missing
       /\ bucket[r].resp.code = 400
  /\ \E k \in TrackIds :
       /\ track[k].pc = "done" /\ track[k].resp.code = 400
       /\ \E i \in DOMAIN track[k].body.raw : track[k].body.raw[i].revenue_cents.num < 0
  /\ assignments = {} /\ events = EmptyBag

\* C22: the revenue test takes the sample variance (divided by n - 1) exactly
\* when both arms come with at least two individual revenues, and the
\* estimate RPV^2 in every other case: no revenues, revenues for one arm only,
\* or an arm with a single revenue
C22_SampleVarianceNeedsTwoSamples ==
  stats.pc = "sampled" =>
    LET c == stats.sampled.controlRevenues
        v == stats.sampled.variantRevenues
    IN  stats.sampled.var =
          IF Len(c) >= 2 /\ Len(v) >= 2
            THEN <<SampleVariance(c), SampleVariance(v)>>
            ELSE <<EstimatedVariance(RevenuePerVisitor(stats.control)),
                   EstimatedVariance(RevenuePerVisitor(stats.variant))>>
\* one order in the control arm, two in the variant arm: the variance of the
\* control arm is NaN and the difference of the arms is not significant
C22_Witness ==
  /\ stats.pc = "sampled"
  /\ stats.control = Arm(1024, 960, 1024) /\ stats.variant = Arm(1024, 960, 3072)
  /\ Len(stats.sampled.controlRevenues) = 1 /\ Len(stats.sampled.variantRevenues) = 2
  /\ stats.sampled.var[1].nan
  /\ ~stats.sampled.result.significant

C24_LiveStatsEqualTestStatsView ==
  [][/\ (stats.pc = "idle" /\ stats'.pc = "visitors") =>
          stats'.live.visitors = CountDistinctVisitors(events, stats'.live.variant_id, "view")
     /\ (stats.pc = "visitors" /\ stats'.pc = "live") =>
          stats'.live.conversions =
            CountDistinctVisitors(events, stats.live.variant_id, "purchase")]_vars
\* two view events of the same visitor are stored and the real-time stats
\* count two visitors
C24_Witness ==
  /\ stats.pc = "live"
  /\ stats.live.visitors = 2
  /\ CountDistinctVisitors(events, stats.live.variant_id, "view") = 1

\* C25: once a test is deleted no variant, assignment or event refers to it,
\* and the insert of a bucketing or tracking request that read the test
\* before the delete and runs after it fails, stores nothing and is answered
\* 500
C25_DeleteLeavesNoRows ==
  /\ [](\A t \in TestIds :
          tests[t] = "deleted" =>
            /\ variants[t] = <<>>
            /\ \A a \in assignments : a.test_id # t /\ a.variant_id[1] # t
            /\ \A e \in BagToSet(events) : e.test_id # t /\ e.variant_id[1] # t)
  /\ [][/\ \A r \in BucketIds :
            (bucket[r].pc = "insert" /\ bucket'[r] # bucket[r]
               /\ tests[bucket[r].testId] = "deleted") =>
              (assignments' = assignments /\ bucket'[r].pc = "done" /\ bucket'[r].resp.code = 500)
       /\ \A k \in TrackIds :
            (track[k].pc = "insert" /\ track'[k] # track[k]
               /\ tests[track[k].body.events[1].test_id] = "deleted") =>
              (events' = events /\ track'[k].pc = "done" /\ track'[k].resp.code = 500)]_vars
\* a bucketing request and a tracking request both ran their insert after the
\* test was deleted
C25_Witness ==
  /\ \E t \in TestIds : tests[t] = "deleted"
  /\ \E r \in BucketIds :
       bucket[r].pc = "done" /\ bucket[r].inserts = 1 /\ bucket[r].resp.code = 500
  /\ \E k \in TrackIds :
       /\ track[k].pc = "done" /\ ~track[k].body.isBatch
       /\ track[k].writes = 1 /\ track[k].resp.code = 500
  /\ assignments = {} /\ events = EmptyBag

\* C26: a create request whose insert of the variants failed is answered 500
\* "Failed to create variants" and the test row it had inserted is not in the
\* store afterwards
C26_FailedCreateLeavesNoTest ==
  (create.pc = "done" /\ create.error = "Failed to create variants") =>
    (create.code = 500 /\ ~Exists(create.id))
\* the delete of the rollback failed as the insert of the variants had: the
\* request is answered 500 and its test row is there, without variants
C26_Witness ==
  /\ create.pc = "done" /\ create.error = "Failed to create variants"
  /\ Exists(create.id) /\ variants[create.id] = <<>>

\* C27: when the requests of a pair that found no assignment have all
\* answered with a variant, exactly one of them answered is_new_assignment
\* true, the one whose insert succeeded, and the others false
C27_OneNewAssignment ==
  \A t \in TestIds, v \in Visitors :
    (/\ FirstTime(t, v) # {}
     /\ \A r \in FirstTime(t, v) : Done(r) /\ bucket[r].resp.code = 200)
    => /\ Cardinality({r \in FirstTime(t, v) : bucket[r].resp.is_new_assignment}) = 1
       /\ \A r \in FirstTime(t, v) :
            bucket[r].resp.is_new_assignment
              <=> (bucket[r].inserts = 1 /\ bucket[r].insertError = NoError)
\* two requests of one pair raced and both answered with the variant of the
\* row: the one that inserted it with true, the one that re-read it with false
C27_Witness ==
  \E r1, r2 \in BucketIds :
    /\ r1 # r2 /\ Done(r1) /\ Done(r2)
    /\ bucket[r1].testId = bucket[r2].testId /\ bucket[r1].visitorId = bucket[r2].visitorId
    /\ bucket[r1].resp.code = 200 /\ bucket[r1].resp.is_new_assignment
    /\ bucket[r2].resp.code = 200 /\ ~bucket[r2].resp.is_new_assignment
    /\ bucket[r2].rereads = 1

\* C28: every assignment row is inserted while its test is active, also when
\* the status is updated between the status check of the request and its
\* insert
C28_InsertOnlyWhileActive ==
  [][\A a \in assignments' \ assignments : tests[a.test_id] = "active"]_vars
\* a request read the test as active and is about to insert its assignment;
\* the test has been paused meanwhile and still has the selected variant
C28_Witness ==
  \E r \in BucketIds :
    /\ bucket[r].pc = "insert" /\ bucket[r].statusSeen = "active"
    /\ tests[bucket[r].testId] = "paused"
    /\ <<bucket[r].testId, bucket[r].selected>> \in VariantIdsOf(bucket[r].testId)
    /\ assignments = {}

\* C29: when some variant of the list has a positive weight, the selected
\* variant has a positive weight, for every draw of [0, total weight) and
\* wherever the variants of weight 0 stand in the list
C29_ZeroWeightNeverSelected ==
  (sel.pc = "done" /\ \E j \in DOMAIN sel.variants : sel.variants[j].weight > 0)
    => sel.variants[sel.selected].weight > 0
\* the draw is 0 and the list begins with a variant of weight 0, followed by
\* one of weight 100: the first is selected
C29_Witness ==
  /\ sel.pc = "done" /\ Len(sel.variants) = 2
  /\ sel.variants[1].weight = 0 /\ sel.variants[2].weight = 100
  /\ sel.random.num = 0
  /\ sel.selected = 1

\* C30: when the sample size is reached and the conversion test or the
\* revenue test is significant, the analysis names a winner and its
\* recommendation is not empty, also when the control rate or the control
\* revenue per visitor is 0 and the relative lift is therefore 0
C30_SignificantResultNamesWinner ==
  (/\ stats.pc \in {"analyzed", "done"}
   /\ stats.analysis.conversion.sampleSizeReached
   /\ stats.analysis.conversion.significant \/ stats.analysis.revenue.significant)
    => (stats.analysis.winner # "none" /\ stats.analysis.recommendation # "")
\* no conversion in the control arm, half of the visitors converted in the
\* variant arm: significant with a relative lift of 0, no winner and an
\* empty recommendation
C30_Witness ==
  /\ stats.pc = "analyzed"
  /\ stats.control.conversions = 0 /\ stats.variant.conversions > 0
  /\ stats.analysis.conversion.sampleSizeReached
  /\ stats.analysis.conversion.significant
  /\ stats.analysis.conversion.relativeLift = Zero
  /\ stats.analysis.winner = "none" /\ stats.analysis.recommendation = ""
====
